---- MODULE Spec2Model ----
(***************************************************************************)
(* Model of the Python AST bridge of ragex:                                 *)
(*   priv/parsers/python/parser.py    source text -> JSON tree (encoder)    *)
(*   priv/parsers/python/unparser.py  JSON tree -> source text (decoder)    *)
(*                                                                          *)
(* Python values are tagged records; a dict is an insertion-ordered         *)
(* sequence of <<key, value>> pairs, as CPython keeps it.  A text that is   *)
(* valid JSON is identified with the value json.loads gives for it.         *)
(* An exception message is a sequence of string pieces, so that an f-string *)
(* is the concatenation of its pieces.                                      *)
(***************************************************************************)
EXTENDS Integers, Sequences, FiniteSets, TLC

VARIABLES source,      \* encoder: the text on stdin (NoSource: no encoder run)
          enc_pc,      \* encoder process: "start", "done" (returned), "crashed"
          enc_result,  \* encoder: what parse_source returned
          enc_stdout,  \* encoder: the lines written to stdout
          enc_exc,     \* encoder: the exception that left main, or NoExc
          dec_stdin,   \* decoder: the text on stdin (Unset: not yet given)
          dec_pc,      \* decoder process: "start", "done", "crashed"
          dec_stdout,  \* decoder: the lines written to stdout
          dec_exc,     \* decoder: the exception that left main, or NoExc
          dec_calls,   \* decoder: the calls made, in order (ghost log)
          rt           \* the re-encoding of the tree the decoder rebuilt

vars == <<source, enc_pc, enc_result, enc_stdout, enc_exc,
          dec_stdin, dec_pc, dec_stdout, dec_exc, dec_calls, rt>>

(***************************************************************************)
(* Bounds of the model.                                                    *)
(***************************************************************************)
MaxBody == 2      \* statements in a module body the oracle parses
MaxLine == 1      \* extra source lines a statement may be shifted by
MaxList == 2      \* elements of an array in a document given to the decoder

(***************************************************************************)
(* Python values.                                                          *)
(***************************************************************************)
PyNone == [t |-> "none"]
PyEllipsis == [t |-> "ellipsis"]
PyBool(b) == [t |-> "bool", b |-> b]
PyInt(i) == [t |-> "int", i |-> i]
PyStr(s) == [t |-> "str", s |-> s]
PyBytes(s) == [t |-> "bytes", y |-> s]
PyList(items) == [t |-> "list", items |-> items]
PyDict(pairs) == [t |-> "dict", pairs |-> pairs]
PyNode(cls, attrs, fields) ==
    [t |-> "node", cls |-> cls, attrs |-> attrs, fields |-> fields]

IsList(v) == v.t = "list"
IsDict(v) == v.t = "dict"
IsAST(v) == v.t = "node"
IsStr(v) == v.t = "str"

DictKeys(d) == [i \in 1..Len(d.pairs) |-> d.pairs[i][1]]
DictHas(d, k) == \E i \in 1..Len(d.pairs) : d.pairs[i][1] = k
DictGet(d, k) == d.pairs[CHOOSE i \in 1..Len(d.pairs) : d.pairs[i][1] = k][2]
\* d[k] = v : replaces the value in place, or appends a new key
DictSet(d, k, v) ==
    IF DictHas(d, k)
    THEN PyDict([i \in 1..Len(d.pairs) |->
                    IF d.pairs[i][1] = k THEN <<k, v>> ELSE d.pairs[i]])
    ELSE PyDict(Append(d.pairs, <<k, v>>))

PositionFields == <<"lineno", "col_offset", "end_lineno", "end_col_offset">>
PositionSet == {PositionFields[i] : i \in 1..Len(PositionFields)}

NoExc == [cls |-> "none", msg |-> <<>>]
Exc(cls, msg) == [cls |-> cls, msg |-> msg]

(***************************************************************************)
(* The oracle: Python's ast module, as the two programs use it.            *)
(* The grammar is cut down to seven productions of Python's grammar.       *)
(***************************************************************************)
ProductionNames ==
    {"Module", "Expr", "Return", "Pass", "Name", "Constant", "Load"}

\* cls._fields
ProductionFields(cls) ==
    CASE cls = "Module" -> <<"body", "type_ignores">>
      [] cls = "Expr" -> <<"value">>
      [] cls = "Return" -> <<"value">>
      [] cls = "Name" -> <<"id", "ctx">>
      [] cls = "Constant" -> <<"value", "kind">>
      [] OTHER -> <<>>

\* stmt and expr nodes carry position attributes; mod and expr_context do not
Positioned(cls) == cls \in {"Expr", "Return", "Pass", "Name", "Constant"}

\* hasattr(node, name) / getattr(node, name) on a position attribute
HasAttr(node, name) ==
    \E i \in 1..Len(node.attrs) : node.attrs[i][1] = name
GetAttr(node, name) ==
    node.attrs[CHOOSE i \in 1..Len(node.attrs) : node.attrs[i][1] = name][2]

\* ast.iter_fields(node): the fields of cls._fields the node has, in order
IterFields(node) == node.fields

\* A source text the oracle accepts is a number of blank lines followed by
\* one statement per line; a statement is given by its shape.
ConstValues == {PyInt(0), PyStr("a"), PyNone, PyBool(TRUE), PyBytes("b")}
ExprShapes ==
    {[e |-> "Name"]} \cup {[e |-> "Constant", v |-> v] : v \in ConstValues}
StmtShapes ==
    {[s |-> "Pass"], [s |-> "Return"]}
    \cup {[s |-> "Expr", x |-> x] : x \in ExprShapes}
    \cup {[s |-> "ReturnValue", x |-> x] : x \in ExprShapes}

Pos(line, col, endcol) ==
    << <<"lineno", PyInt(line)>>, <<"col_offset", PyInt(col)>>,
       <<"end_lineno", PyInt(line)>>, <<"end_col_offset", PyInt(endcol)>> >>

MkExpr(x, line, col) ==
    IF x.e = "Name"
    THEN PyNode("Name", Pos(line, col, col + 1),
                << <<"id", PyStr("x")>>, <<"ctx", PyNode("Load", <<>>, <<>>)>> >>)
    ELSE PyNode("Constant", Pos(line, col, col + 1),
                << <<"value", x.v>>, <<"kind", PyNone>> >>)

MkStmt(sh, line) ==
    CASE sh.s = "Pass" -> PyNode("Pass", Pos(line, 0, 4), <<>>)
      [] sh.s = "Return" ->
            PyNode("Return", Pos(line, 0, 6), << <<"value", PyNone>> >>)
      [] sh.s = "Expr" ->
            PyNode("Expr", Pos(line, 0, 1),
                   << <<"value", MkExpr(sh.x, line, 0)>> >>)
      [] sh.s = "ReturnValue" ->
            PyNode("Return", Pos(line, 0, 8),
                   << <<"value", MkExpr(sh.x, line, 7)>> >>)

\* What the oracle raises on a text it does not accept.
SyntaxErr(cls, msg, lineno, offset, text) ==
    [cls |-> cls, emsg |-> msg, lineno |-> lineno, offset |-> offset,
     text |-> text, msg |-> <<msg.s>>]
ParseErrors ==
    {SyntaxErr("SyntaxError", PyStr("invalid syntax"),
               PyInt(1), PyInt(7), PyStr("def f(:")),
     SyntaxErr("IndentationError", PyStr("unexpected indent"),
               PyInt(1), PyInt(1), PyStr(" x=1")),
     SyntaxErr("SyntaxError",
               PyStr("source code string cannot contain null bytes"),
               PyNone, PyNone, PyNone),
     Exc("RecursionError",
         <<"maximum recursion depth exceeded during compilation">>),
     Exc("MemoryError", <<>>)}

\* a plausible slip: the class is compared, subclasses are missed
ExactlySyntaxError(cls) == cls = "SyntaxError"

\* issubclass(cls, SyntaxError)
IsSyntaxError(cls) == cls \in {"SyntaxError", "IndentationError", "TabError"}

NoSource == [kind |-> "none"]
Sources ==
    {[kind |-> "text", shift |-> sh, body |-> b] :
        sh \in 0..MaxLine,
        b \in UNION {[1..n -> StmtShapes] : n \in 0..MaxBody}}
    \cup {[kind |-> "bad", err |-> e] : e \in ParseErrors}

\* ast.parse(source)
Parse(src) ==
    IF src.kind = "text"
    THEN [ok |-> TRUE,
          tree |-> PyNode("Module", <<>>,
              << <<"body", PyList([i \in 1..Len(src.body) |->
                                     MkStmt(src.body[i], src.shift + i)])>>,
                 <<"type_ignores", PyList(<<>>)>> >>)]
    ELSE [ok |-> FALSE, exc |-> src.err]

(***************************************************************************)
(* json, as the two programs use it.                                       *)
(***************************************************************************)
RECURSIVE Serializable(_)
Serializable(v) ==
    CASE v.t \in {"none", "bool", "int", "str"} -> TRUE
      [] v.t = "list" ->
            \A i \in 1..Len(v.items) : Serializable(v.items[i])
      [] v.t = "dict" ->
            \A i \in 1..Len(v.pairs) : Serializable(v.pairs[i][2])
      [] OTHER -> FALSE

InvalidJson == [json |-> FALSE]
JsonText(v) == [json |-> TRUE, doc |-> v]

\* json.dumps(v): the text, or TypeError on a value JSON has no form for
JsonDumps(v) ==
    IF Serializable(v)
    THEN [ok |-> TRUE, text |-> JsonText(v)]
    ELSE [ok |-> FALSE,
          exc |-> Exc("TypeError", <<"Object is not JSON serializable">>)]

\* json.loads(text): the value, or JSONDecodeError
JsonLoads(text) ==
    IF text.json
    THEN [ok |-> TRUE, val |-> text.doc]
    ELSE [ok |-> FALSE, exc |-> Exc("JSONDecodeError", <<"Expecting value">>)]

\* str(e) of an exception, and str(x) of a value
PyMsg(pieces) == [t |-> "str", pieces |-> pieces]
StrOfExc(e) == PyMsg(e.msg)
StrOf(v) == IF IsStr(v) THEN v ELSE [t |-> "str", repr |-> v]

(***************************************************************************)
(* parser.py                                                               *)
(***************************************************************************)
RECURSIVE ast_to_dict(_), EncodeFields(_, _, _)

\* result = {'_type': node.__class__.__name__}
NewRecord(node) == PyDict(<< <<"_type", PyStr(node.cls)>> >>)

\* if hasattr(node, name): result[name] = getattr(node, name)
CopyPosition(result, node, name) ==
    IF HasAttr(node, name)
    THEN DictSet(result, name, GetAttr(node, name))
    ELSE result

\* a plausible slip: the children are emitted last to first
EncodeListReversed(value) ==
    PyList([j \in 1..Len(value.items) |->
               ast_to_dict(value.items[Len(value.items) + 1 - j])])

\* [ast_to_dict(x) for x in value]
EncodeList(value) ==
    PyList([j \in 1..Len(value.items) |-> ast_to_dict(value.items[j])])

\* for field, value in ast.iter_fields(node): ...
EncodeFields(flds, i, result) ==
    IF i > Len(flds)
    THEN result
    ELSE LET field == flds[i][1]
             value == flds[i][2]
         IN  EncodeFields(flds, i + 1,
                 DictSet(result, field,
                         IF IsList(value) THEN EncodeList(value)
                                          ELSE ast_to_dict(value)))

ast_to_dict(node) ==
    IF IsAST(node)
    THEN LET r0 == NewRecord(node)
             r1 == CopyPosition(r0, node, "lineno")
             r2 == CopyPosition(r1, node, "col_offset")
             r3 == CopyPosition(r2, node, "end_lineno")
             r4 == CopyPosition(r3, node, "end_col_offset")
         IN  EncodeFields(IterFields(node), 1, r4)
    ELSE IF IsList(node)
    THEN EncodeList(node)
    ELSE node

\* except SyntaxError as e
SyntaxErrorEnvelope(e) ==
    PyDict(<< <<"ok", PyBool(FALSE)>>,
              <<"error", PyDict(<< <<"type", PyStr("SyntaxError")>>,
                                   <<"msg", StrOf(e.emsg)>>,
                                   <<"lineno", e.lineno>>,
                                   <<"offset", e.offset>>,
                                   <<"text", e.text>> >>)>> >>)

\* except Exception as e (both programs)
ErrorEnvelope(e) ==
    PyDict(<< <<"ok", PyBool(FALSE)>>,
              <<"error", PyDict(<< <<"type", PyStr(e.cls)>>,
                                   <<"msg", StrOfExc(e)>> >>)>> >>)

parse_source(src) ==
    LET p == Parse(src)
    IN  IF p.ok
        THEN PyDict(<< <<"ok", PyBool(TRUE)>>,
                       <<"ast", ast_to_dict(p.tree)>> >>)
        ELSE IF IsSyntaxError(p.exc.cls)
        THEN SyntaxErrorEnvelope(p.exc)
        ELSE ErrorEnvelope(p.exc)

\* main(): source = sys.stdin.read(); print(json.dumps(parse_source(source)))
parser_main ==
    /\ source # NoSource
    /\ enc_pc = "start"
    /\ LET result == parse_source(source)
           d == JsonDumps(result)
       IN  /\ enc_result' = result
           /\ IF d.ok
              THEN /\ enc_stdout' = Append(enc_stdout, d.text)
                   /\ enc_exc' = NoExc
                   /\ enc_pc' = "done"
              ELSE /\ enc_stdout' = enc_stdout
                   /\ enc_exc' = d.exc
                   /\ enc_pc' = "crashed"
    /\ UNCHANGED <<source, dec_stdin, dec_pc, dec_stdout, dec_exc, dec_calls, rt>>

(***************************************************************************)
(* The oracle, decoder side: what getattr(ast, name, None) finds, what     *)
(* calling it with keyword arguments gives, and ast.unparse (Python 3.9    *)
(* and later, where hasattr(ast, 'unparse') holds).                        *)
(***************************************************************************)
Ok(val, log) == [ok |-> TRUE, val |-> val, log |-> log]
Raise(exc, log) == [ok |-> FALSE, exc |-> exc, log |-> log]

\* getattr(ast, node_type, None)
AstGetattr(node_type) ==
    IF ~IsStr(node_type)
    THEN Raise(Exc("TypeError", <<"attribute name must be string">>), <<>>)
    ELSE IF node_type.s \in ProductionNames
    THEN Ok([t |-> "class", name |-> node_type.s], <<>>)
    ELSE IF node_type.s = "literal_eval"
    THEN Ok([t |-> "function", name |-> node_type.s], <<>>)
    ELSE IF node_type.s = "sys"
    THEN Ok([t |-> "module", name |-> node_type.s], <<>>)
    ELSE Ok(PyNone, <<>>)

\* A node built by its class holds the keyword arguments that are fields of
\* the production; end_lineno and end_col_offset read as None on a
\* positioned node that was given none, lineno and col_offset are absent.
NewNode(cls, kwargs) ==
    LET names == ProductionFields(cls)
        present == SelectSeq(names, LAMBDA n : DictHas(kwargs, n))
    IN  PyNode(cls,
               IF Positioned(cls)
               THEN << <<"end_lineno", PyNone>>, <<"end_col_offset", PyNone>> >>
               ELSE <<>>,
               [i \in 1..Len(present) |->
                   <<present[i], DictGet(kwargs, present[i])>>])

\* node_class(**fields)
Call(node_class, kwargs) ==
    CASE node_class.t = "class" -> Ok(NewNode(node_class.name, kwargs), <<>>)
      [] node_class.t = "function" ->
            IF DictKeys(kwargs) # <<"node_or_string">>
            THEN Raise(Exc("TypeError",
                           <<node_class.name, "() got wrong arguments">>), <<>>)
            ELSE IF DictGet(kwargs, "node_or_string") = PyStr("1")
            THEN Ok(PyInt(1), <<>>)
            ELSE Raise(Exc("ValueError", <<"malformed node or string">>), <<>>)
      [] OTHER ->
            Raise(Exc("TypeError", <<"'module' object is not callable">>), <<>>)

FieldOf(node, name) ==
    node.fields[CHOOSE i \in 1..Len(node.fields) : node.fields[i][1] = name][2]
HasField(node, name) ==
    \E i \in 1..Len(node.fields) : node.fields[i][1] = name
NoAttribute(name) == Exc("AttributeError", <<"object has no attribute ", name>>)

\* The error ast.unparse(tree) raises, NoExc when it raises none.
RECURSIVE UnparseError(_), UnparseListError(_, _)
UnparseListError(items, i) ==
    IF i > Len(items)
    THEN NoExc
    ELSE LET e == UnparseError(items[i])
         IN  IF e # NoExc THEN e ELSE UnparseListError(items, i + 1)

UnparseError(tree) ==
    CASE IsList(tree) -> UnparseListError(tree.items, 1)
      [] ~IsAST(tree) -> NoAttribute("_fields")
      [] tree.cls = "Module" ->
            IF ~HasField(tree, "body") THEN NoAttribute("body")
            ELSE IF ~HasField(tree, "type_ignores") THEN NoAttribute("type_ignores")
            ELSE IF ~IsList(FieldOf(tree, "body"))
            THEN Exc("TypeError", <<"object is not iterable">>)
            ELSE UnparseError(FieldOf(tree, "body"))
      [] tree.cls = "Expr" ->
            IF ~HasField(tree, "value") THEN NoAttribute("value")
            ELSE IF IsList(FieldOf(tree, "value"))
            THEN Exc("TypeError", <<"unhashable type: 'list'">>)
            ELSE UnparseError(FieldOf(tree, "value"))
      [] tree.cls = "Return" ->
            IF ~HasField(tree, "value") \/ FieldOf(tree, "value") = PyNone
            THEN NoExc
            ELSE UnparseError(FieldOf(tree, "value"))
      [] tree.cls = "Name" ->
            IF ~HasField(tree, "id") THEN NoAttribute("id")
            ELSE IF ~IsStr(FieldOf(tree, "id"))
            THEN Exc("TypeError", <<"expected str instance">>)
            ELSE NoExc
      [] tree.cls = "Constant" ->
            IF ~HasField(tree, "value") THEN NoAttribute("value") ELSE NoExc
      [] OTHER -> NoExc

\* ast.unparse(tree): the text is identified by the tree it was written from
Unparse(tree) ==
    LET e == UnparseError(tree)
    IN  IF e = NoExc
        THEN Ok([t |-> "str", unparsed |-> tree], <<>>)
        ELSE Raise(e, <<>>)

(***************************************************************************)
(* unparser.py                                                             *)
(***************************************************************************)
\* key.startswith('_'), over the keys of the model
UnderscoreKeys == {"_type", "_x"}
StartsWithUnderscore(key) == key \in UnderscoreKeys

\* a plausible slip: of the underscore keys only the discriminator is skipped
SkipTypeAndPositions(key) == key = "_type" \/ key \in PositionSet

\* if key.startswith('_') or key in ['lineno', ...]: continue
SkipKey(key) == StartsWithUnderscore(key) \/ key \in PositionSet

\* raise ValueError(f"Unknown AST node type: {node_type}")
UnknownNodeType(node_type) ==
    Exc("ValueError", <<"Unknown AST node type: ", node_type.s>>)

\* A result carries the log of the node_class(**fields) calls made so far.
RECURSIVE dict_to_ast(_), DecodeFields(_, _, _), DecodeList(_, _, _)

\* a plausible slip: the element is put in front of the list being built
PrependItem(acc, r) ==
    IF ~r.ok
    THEN Raise(r.exc, acc.log \o r.log)
    ELSE Ok(PyList(<<r.val>> \o acc.val.items), acc.log \o r.log)

\* one more element of the list being built, or the exception it raised
AppendItem(acc, r) ==
    IF ~r.ok
    THEN Raise(r.exc, acc.log \o r.log)
    ELSE Ok(PyList(Append(acc.val.items, r.val)), acc.log \o r.log)

\* [dict_to_ast(item) for item in value]
DecodeList(items, i, acc) ==
    IF i > Len(items) \/ ~acc.ok
    THEN acc
    ELSE DecodeList(items, i + 1, AppendItem(acc, dict_to_ast(items[i])))

\* fields[key] = ..., or the exception the right-hand side raised
SetField(acc, key, r) ==
    IF ~r.ok
    THEN Raise(r.exc, acc.log \o r.log)
    ELSE Ok(DictSet(acc.val, key, r.val), acc.log \o r.log)

\* the right-hand side: a list is decoded element by element
DecodeValue(value) ==
    IF IsList(value)
    THEN DecodeList(value.items, 1, Ok(PyList(<<>>), <<>>))
    ELSE dict_to_ast(value)

\* for key, value in data.items(): ...
DecodeFields(pairs, i, acc) ==
    IF i > Len(pairs) \/ ~acc.ok
    THEN acc
    ELSE IF SkipKey(pairs[i][1])
    THEN DecodeFields(pairs, i + 1, acc)
    ELSE DecodeFields(pairs, i + 1,
             SetField(acc, pairs[i][1], DecodeValue(pairs[i][2])))

\* return node_class(**fields), c being what the call gave
Returned(data, node_class, f, c) ==
    IF c.ok
    THEN Ok(c.val, Append(f.log, [fn |-> node_class, kwargs |-> f.val,
                                  data |-> data, ret |-> c]))
    ELSE Raise(c.exc, Append(f.log, [fn |-> node_class, kwargs |-> f.val,
                                     data |-> data, ret |-> c]))

\* the fields f are prepared, then the node is created
CreateNode(data, node_class, f) ==
    IF ~f.ok THEN f ELSE Returned(data, node_class, f, Call(node_class, f.val))

\* g is what getattr(ast, node_type, None) gave
Resolved(data, node_type, g) ==
    IF ~g.ok
    THEN g
    ELSE IF g.val = PyNone
    THEN Raise(UnknownNodeType(node_type), <<>>)
    ELSE CreateNode(data, g.val,
                    DecodeFields(data.pairs, 1, Ok(PyDict(<<>>), <<>>)))

dict_to_ast(data) ==
    IF IsDict(data) /\ DictHas(data, "_type")
    THEN Resolved(data, DictGet(data, "_type"),
                  AstGetattr(DictGet(data, "_type")))
    ELSE IF IsList(data)
    THEN DecodeList(data.items, 1, Ok(PyList(<<>>), <<>>))
    ELSE Ok(data, <<>>)

\* a plausible slip: the error is raised again as it came
Reraise(e) == e

\* raise ValueError(f"Failed to unparse AST: {e}")
FailedToUnparse(e) == Exc("ValueError", <<"Failed to unparse AST: ">> \o e.msg)

\* source = ast.unparse(tree); return source
\* The log holds the call of dict_to_ast and the call of ast.unparse.
Unparsed(ast_dict, d, u) ==
    IF u.ok
    THEN Ok(u.val, <<[fn |-> "dict_to_ast", arg |-> ast_dict, ret |-> d],
                     [fn |-> "unparse", arg |-> d.val, ret |-> u]>>)
    ELSE Raise(FailedToUnparse(u.exc),
               <<[fn |-> "dict_to_ast", arg |-> ast_dict, ret |-> d],
                 [fn |-> "unparse", arg |-> d.val, ret |-> u]>>)

\* tree = dict_to_ast(ast_dict), d being what the call gave
Rebuilt(ast_dict, d) ==
    IF ~d.ok
    THEN Raise(FailedToUnparse(d.exc),
               <<[fn |-> "dict_to_ast", arg |-> ast_dict, ret |-> d]>>)
    ELSE Unparsed(ast_dict, d, Unparse(d.val))

unparse_ast(ast_dict) == Rebuilt(ast_dict, dict_to_ast(ast_dict))

\* a plausible slip: the discriminator is not looked for
NotADict(data) == ~IsDict(data)

\* if not isinstance(data, dict) or '_type' not in data
InvalidFormat(data) == ~IsDict(data) \/ ~DictHas(data, "_type")

InvalidFormatEnvelope ==
    PyDict(<< <<"ok", PyBool(FALSE)>>,
              <<"error", PyDict(<< <<"type", PyStr("ValueError")>>,
                                   <<"msg", PyStr("Invalid AST format")>> >>)>> >>)

SourceEnvelope(text) ==
    PyDict(<< <<"ok", PyBool(TRUE)>>, <<"source", text>> >>)

\* try: source = unparse_ast(data); print(...) except Exception as e: print(...)
Responded(u) ==
    [envelope |-> IF u.ok THEN SourceEnvelope(u.val) ELSE ErrorEnvelope(u.exc),
     log |-> u.log]

\* What main writes, and the calls it makes, once json.loads has returned.
unparser_respond(data) ==
    IF InvalidFormat(data)
    THEN [envelope |-> InvalidFormatEnvelope, log |-> <<>>]
    ELSE Responded(unparse_ast(data))

Unset == [json |-> FALSE, unset |-> TRUE]

\* print(json.dumps(envelope)), r being what main answers
unparser_print(r, d) ==
    /\ dec_calls' = r.log
    /\ IF d.ok
       THEN /\ dec_stdout' = Append(dec_stdout, d.text)
            /\ dec_exc' = NoExc
            /\ dec_pc' = "done"
       ELSE /\ dec_stdout' = dec_stdout
            /\ dec_exc' = d.exc
            /\ dec_pc' = "crashed"

\* data = json.loads(sys.stdin.read()), l being what the call gave
unparser_loaded(l) ==
    IF ~l.ok
    THEN /\ dec_exc' = l.exc
         /\ dec_pc' = "crashed"
         /\ UNCHANGED <<dec_stdout, dec_calls>>
    ELSE unparser_print(unparser_respond(l.val),
                        JsonDumps(unparser_respond(l.val).envelope))

\* main()
unparser_main ==
    /\ dec_stdin # Unset
    /\ dec_pc = "start"
    /\ unparser_loaded(JsonLoads(dec_stdin))
    /\ UNCHANGED <<source, enc_pc, enc_result, enc_stdout, enc_exc, dec_stdin, rt>>

(***************************************************************************)
(* The documents a host may write to the decoder's stdin.                  *)
(***************************************************************************)
Rec(tv, extras) == PyDict(<< <<"_type", tv>> >> \o extras)

DocScalars == {PyNone, PyInt(5), PyStr("x")}

\* records one level down: a discriminator and at most one other key
InnerRecords ==
    {Rec(PyStr(tn), p) :
        tn \in {"Name", "Pass", "Bogus", "literal_eval", "sys"},
        p \in {<<>>,
               << <<"id", PyStr("x")>> >>,
               << <<"id", PyInt(5)>> >>,
               << <<"node_or_string", PyStr("1")>> >>,
               << <<"_x", PyInt(5)>> >>}}

ListElements ==
    {Rec(PyStr("Pass"), <<>>),
     Rec(PyStr("Name"), << <<"id", PyStr("x")>> >>),
     Rec(PyStr("Bogus"), <<>>),
     Rec(PyStr("literal_eval"), << <<"node_or_string", PyStr("1")>> >>),
     Rec(PyStr("sys"), <<>>),
     PyInt(5),
     PyList(<<>>)}

DocLists ==
    {PyList(l) : l \in UNION {[1..n -> ListElements] : n \in 0..MaxList}}

InnerValues == DocScalars \cup {PyDict(<<>>)} \cup InnerRecords \cup DocLists

OuterExtras ==
    {<<>>} \cup
    {<< <<k, v>> >> :
        k \in {"body", "value", "_x", "lineno"}, v \in InnerValues}

OuterRecords ==
    {PyDict(head \o main \o tail) :
        head \in {<<>>} \cup
                 {<< <<"_type", tv>> >> :
                     tv \in {PyStr("Module"), PyStr("Expr"), PyStr("Bogus"),
                             PyStr("literal_eval"), PyInt(5)}},
        main \in OuterExtras,
        tail \in {<<>>, << <<"type_ignores", PyList(<<>>)>> >>}}

DecInputs ==
    {InvalidJson} \cup {JsonText(v) : v \in InnerValues \cup OuterRecords}

(***************************************************************************)
(* The system: one encoder run on a source text, whose payload the host    *)
(* may hand to a decoder run; or one decoder run on a document of the      *)
(* host's.  The tree the decoder rebuilt may be encoded again.             *)
(***************************************************************************)
NotRun == [t |-> "notrun"]

Init ==
    /\ \/ source \in Sources /\ dec_stdin = Unset
       \/ source = NoSource /\ dec_stdin \in DecInputs
    /\ enc_pc = "start"
    /\ enc_result = NotRun
    /\ enc_stdout = <<>>
    /\ enc_exc = NoExc
    /\ dec_pc = "start"
    /\ dec_stdout = <<>>
    /\ dec_exc = NoExc
    /\ dec_calls = <<>>
    /\ rt = NotRun

\* The host reads the encoder's line and writes its "ast" to the decoder.
HostSendPayload ==
    /\ enc_pc = "done"
    /\ dec_stdin = Unset
    /\ LET l == JsonLoads(enc_stdout[1])
       IN  /\ l.ok
           /\ DictGet(l.val, "ok") = PyBool(TRUE)
           /\ dec_stdin' = JsonText(DictGet(l.val, "ast"))
    /\ UNCHANGED <<source, enc_pc, enc_result, enc_stdout, enc_exc,
                   dec_pc, dec_stdout, dec_exc, dec_calls, rt>>

\* ast_to_dict on the tree dict_to_ast returned
ReEncode ==
    /\ dec_pc = "done"
    /\ rt = NotRun
    /\ dec_calls # <<>>
    /\ dec_calls[1].ret.ok
    /\ rt' = ast_to_dict(dec_calls[1].ret.val)
    /\ UNCHANGED <<source, enc_pc, enc_result, enc_stdout, enc_exc,
                   dec_stdin, dec_pc, dec_stdout, dec_exc, dec_calls>>

Next ==
    \/ parser_main
    \/ HostSendPayload
    \/ unparser_main
    \/ ReEncode

Spec == Init /\ [][Next]_vars

(***************************************************************************)
(* Vocabulary of the properties.                                           *)
(***************************************************************************)
EncoderRan == enc_pc # "start"
DecoderRan == dec_pc # "start"
\* the decoder read a JSON document and the document passed main's validation
DecoderDecoding == DecoderRan /\ dec_calls # <<>>
Rebuild == dec_calls[1].ret
\* the envelope on the single line a process wrote
Written(stdout) == stdout[1].doc
FalseV == [t |-> "bool", b |-> FALSE]
StrV(x) == [t |-> "str", s |-> x]
TextV(pieces) == [t |-> "str", pieces |-> pieces]
RecordV(pairs) == [t |-> "dict", pairs |-> pairs]
KeysOf(d) == [i \in 1..Len(d.pairs) |-> d.pairs[i][1]]
Range(seq) == {seq[i] : i \in 1..Len(seq)}
ValueAt(d, k) == d.pairs[CHOOSE i \in 1..Len(d.pairs) : d.pairs[i][1] = k][2]
FourPositions == {"lineno", "col_offset", "end_lineno", "end_col_offset"}

\* a record with the four position keys removed, at every depth
RECURSIVE StripPositions(_)
StripPositions(v) ==
    CASE v.t = "dict" ->
            LET kept == SelectSeq(v.pairs, LAMBDA p : p[1] \notin FourPositions)
            IN  RecordV([i \in 1..Len(kept) |->
                            <<kept[i][1], StripPositions(kept[i][2])>>])
      [] v.t = "list" ->
            [t |-> "list",
             items |-> [i \in 1..Len(v.items) |-> StripPositions(v.items[i])]]
      [] OTHER -> v

\* C1: round trip. For every tree the oracle parses, decoding the payload
\* ast_to_dict gave rebuilds a tree whose re-encoding equals that payload once
\* the four position fields are removed from every record; the same holds of
\* the re-encoding of what a decoder run rebuilt from the encoder's line.
RoundTrip ==
    /\ (EncoderRan /\ source.kind = "text") =>
          LET payload == ValueAt(enc_result, "ast")
              d == dict_to_ast(payload)
          IN  /\ d.ok
              /\ StripPositions(ast_to_dict(d.val)) = StripPositions(payload)
    /\ (source # NoSource /\ rt # NotRun) =>
          StripPositions(rt) = StripPositions(ValueAt(enc_result, "ast"))

\* a two-statement module with a nested expression went through encoder,
\* decoder and re-encoding
RoundTripWitness ==
    /\ source # NoSource
    /\ rt # NotRun
    /\ source.kind = "text"
    /\ Len(source.body) = 2
    /\ source.body[1].s = "ReturnValue"
    /\ source.body[2].s = "Pass"

\* C2: the decoder process, whatever it read, ends having written exactly
\* one envelope line, and no error leaves main.
DecoderOneLine ==
    DecoderRan => (dec_exc = NoExc /\ Len(dec_stdout) = 1)

\* C3: the encoder process, whatever it read, ends having written exactly
\* one envelope line, and no error leaves main.
EncoderOneLine ==
    EncoderRan => (enc_exc = NoExc /\ Len(enc_stdout) = 1)

\* C4: a document that is not a record, or a record without `_type`, gets
\* exactly {ok:false, error:{type:"ValueError", msg:"Invalid AST format"}}
\* and neither dict_to_ast nor unparse is called.
MalformedRejected ==
    (/\ DecoderRan
     /\ dec_stdin.json
     /\ (dec_stdin.doc.t # "dict" \/ "_type" \notin Range(KeysOf(dec_stdin.doc))))
    => /\ dec_pc = "done"
       /\ Len(dec_stdout) = 1
       /\ Written(dec_stdout) =
             RecordV(<< <<"ok", FalseV>>,
                        <<"error", RecordV(<< <<"type", StrV("ValueError")>>,
                                              <<"msg", StrV("Invalid AST format")>> >>)>> >>)
       /\ dec_calls = <<>>

\* the decoder answered the empty record
MalformedWitness ==
    /\ dec_pc = "done"
    /\ dec_stdin.json
    /\ dec_stdin.doc = RecordV(<<>>)

\* the `_type` values, at any depth of a document, that name no production
RECURSIVE UnknownTypes(_)
UnknownTypes(v) ==
    CASE v.t = "dict" ->
            (IF /\ "_type" \in Range(KeysOf(v))
                /\ ValueAt(v, "_type") \notin {StrV(n) : n \in ProductionNames}
             THEN {ValueAt(v, "_type")}
             ELSE {})
            \cup UNION {UnknownTypes(v.pairs[i][2]) : i \in 1..Len(v.pairs)}
      [] v.t = "list" ->
            UNION {UnknownTypes(v.items[i]) : i \in 1..Len(v.items)}
      [] OTHER -> {}

UnparseCalled == \E i \in 1..Len(dec_calls) : dec_calls[i].fn = "unparse"
ErrorOf(envelope) == ValueAt(envelope, "error")

\* C5: a record, at any depth of a document that passes validation, whose
\* `_type` names no production makes the decoder answer ok:false with type
\* "ValueError" and a msg that contains that `_type` value, and unparse is
\* not called.
UnknownRejected ==
    (DecoderDecoding /\ UnknownTypes(dec_stdin.doc) # {})
    => /\ dec_pc = "done"
       /\ ValueAt(Written(dec_stdout), "ok") = FalseV
       /\ ValueAt(ErrorOf(Written(dec_stdout)), "type") = StrV("ValueError")
       /\ \E tv \in UnknownTypes(dec_stdin.doc) :
             /\ tv.t = "str"
             /\ tv.s \in Range(ValueAt(ErrorOf(Written(dec_stdout)), "msg").pieces)
       /\ ~UnparseCalled

\* the integer a native node supplies for a position attribute, if it does
SuppliesInteger(node, name) ==
    \E i \in 1..Len(node.attrs) :
        node.attrs[i][1] = name /\ node.attrs[i][2].t = "int"
Supplied(node, name) ==
    node.attrs[CHOOSE i \in 1..Len(node.attrs) : node.attrs[i][1] = name][2]

\* the native nodes of a tree, each with the record emitted for it
RECURSIVE Emitted(_, _)
Emitted(node, rec) ==
    CASE node.t = "node" ->
            {<<node, rec>>}
            \cup UNION {IF node.fields[i][1] \in Range(KeysOf(rec))
                        THEN Emitted(node.fields[i][2],
                                     ValueAt(rec, node.fields[i][1]))
                        ELSE {}
                        : i \in 1..Len(node.fields)}
      [] node.t = "list" /\ rec.t = "list" ->
            UNION {Emitted(node.items[i], rec.items[i]) :
                      i \in 1..Len(node.items) \cap 1..Len(rec.items)}
      [] OTHER -> {}

PositionsFaithful(node, rec) ==
    \A p \in Emitted(node, rec) :
        \A name \in FourPositions :
            /\ (name \in Range(KeysOf(p[2]))) <=> SuppliesInteger(p[1], name)
            /\ SuppliesInteger(p[1], name) =>
                  ValueAt(p[2], name) = Supplied(p[1], name)

\* C6: in every record ast_to_dict emits, a position field is present if and
\* only if the native node supplies an integer for it, and then carries that
\* integer; a field the node does not supply (or supplies as None) is omitted.
PositionMetadata ==
    /\ (EncoderRan /\ source.kind = "text") =>
          PositionsFaithful(Parse(source).tree, ValueAt(enc_result, "ast"))
    /\ rt # NotRun => PositionsFaithful(Rebuild.val, rt)

\* C7: when parse raises a syntax error (or a subclass), the encoder returns
\* ok:false with type exactly "SyntaxError" and msg, lineno, offset, text
\* copied from the error; when parse raises any other error, ok:false with
\* type the error's class name and msg its description, and no other keys;
\* no `ast` key either way.
SyntaxErrorEnvelopes ==
    (EncoderRan /\ source.kind = "bad") =>
        LET e == source.err
        IN  /\ "ast" \notin Range(KeysOf(enc_result))
            /\ IF e.cls \in {"SyntaxError", "IndentationError", "TabError"}
               THEN enc_result =
                      RecordV(<< <<"ok", FalseV>>,
                                 <<"error", RecordV(<< <<"type", StrV("SyntaxError")>>,
                                                       <<"msg", e.emsg>>,
                                                       <<"lineno", e.lineno>>,
                                                       <<"offset", e.offset>>,
                                                       <<"text", e.text>> >>)>> >>)
               ELSE enc_result =
                      RecordV(<< <<"ok", FalseV>>,
                                 <<"error", RecordV(<< <<"type", StrV(e.cls)>>,
                                                       <<"msg", TextV(e.msg)>> >>)>> >>)

\* the encoder answered a text on which parse raised a subclass of SyntaxError
SyntaxErrorWitness ==
    /\ enc_pc = "done"
    /\ source.kind = "bad"
    /\ source.err.cls = "IndentationError"
    /\ Len(enc_stdout) = 1

\* the decoder's run failed in reconstruction or in unparse: the error raised
DecodeFailed ==
    /\ DecoderDecoding
    /\ ~dec_calls[Len(dec_calls)].ret.ok
RaisedError == dec_calls[Len(dec_calls)].ret.exc

\* C8 as stated: the failure envelope carries the class and the description
\* of the error that reconstruction or unparse raised.
DecoderErrorAsRaised ==
    DecodeFailed =>
        /\ Len(dec_stdout) = 1
        /\ Written(dec_stdout) =
              RecordV(<< <<"ok", FalseV>>,
                         <<"error", RecordV(<< <<"type", StrV(RaisedError.cls)>>,
                                               <<"msg", TextV(RaisedError.msg)>> >>)>> >>)

\* C8 as amended: whatever the class C of the error raised, the failure
\* envelope has type "ValueError" and msg "Failed to unparse AST: " followed
\* by the error's description D, and carries only the keys type and msg.
DecoderErrorWrapped ==
    DecodeFailed =>
        /\ Len(dec_stdout) = 1
        /\ Written(dec_stdout) =
              RecordV(<< <<"ok", FalseV>>,
                         <<"error", RecordV(<< <<"type", StrV("ValueError")>>,
                                               <<"msg", TextV(<<"Failed to unparse AST: ">>
                                                              \o RaisedError.msg)>> >>)>> >>)

\* unparse rejected a rebuilt tree with an error that is no ValueError
DecoderErrorWitness ==
    /\ DecodeFailed
    /\ UnparseCalled
    /\ RaisedError.cls = "TypeError"
    /\ dec_pc = "done"

\* the node_class(**fields) calls of the decoder's run
ConstructorCalls == IF DecoderDecoding THEN Rebuild.log ELSE <<>>

\* what a value of the document became in the keyword arguments
RECURSIVE DecodedAs(_, _)
DecodedAs(d, v) ==
    CASE d.t = "list" ->
            /\ v.t = "list"
            /\ Len(v.items) = Len(d.items)
            /\ \A i \in 1..Len(d.items) : DecodedAs(d.items[i], v.items[i])
      [] d.t = "dict" /\ "_type" \in Range(KeysOf(d)) ->
            ValueAt(d, "_type") \in {StrV(n) : n \in ProductionNames}
               => (v.t = "node" /\ StrV(v.cls) = ValueAt(d, "_type"))
      [] OTHER -> v = d

\* C9 as stated: the fields passed to the constructor are the record's keys
\* minus `_type` and the four position fields.
FieldsAllButTypeAndPositions ==
    \A i \in 1..Len(ConstructorCalls) :
        KeysOf(ConstructorCalls[i].kwargs) =
            SelectSeq(KeysOf(ConstructorCalls[i].data),
                      LAMBDA k : k \notin {"_type"} \cup FourPositions)

\* C9 as amended: the fields passed to the constructor are the record's keys
\* that do not begin with an underscore and are none of the four position
\* fields, in the record's order; each is decoded recursively, an array to a
\* sequence of the same length and order, a nested record whose `_type` names
\* a production to a node of that production, a scalar unchanged.
FieldsNoUnderscoreNoPositions ==
    \A i \in 1..Len(ConstructorCalls) :
        LET call == ConstructorCalls[i]
        IN  /\ KeysOf(call.kwargs) =
                  SelectSeq(KeysOf(call.data),
                            LAMBDA k : k \notin UnderscoreKeys \cup FourPositions)
            /\ \A k \in Range(KeysOf(call.kwargs)) :
                  DecodedAs(ValueAt(call.data, k), ValueAt(call.kwargs, k))

\* a record with an underscore key and a list-valued field reached its
\* constructor, which got the field and not the underscore key
FieldsWitness ==
    \E i \in 1..Len(ConstructorCalls) :
        LET call == ConstructorCalls[i]
        IN  /\ "_x" \in Range(KeysOf(call.data))
            /\ "type_ignores" \in Range(KeysOf(call.kwargs))
            /\ Len(ConstructorCalls) = 1

\* a tree of native nodes against the records emitted for it
RECURSIVE Mapped(_, _)
Mapped(node, rec) ==
    CASE node.t = "node" ->
            /\ rec.t = "dict"
            /\ ValueAt(rec, "_type") = StrV(node.cls)
            /\ SelectSeq(KeysOf(rec), LAMBDA k : k \notin {"_type"} \cup FourPositions)
                  = [i \in 1..Len(node.fields) |-> node.fields[i][1]]
            /\ \A i \in 1..Len(node.fields) :
                  Mapped(node.fields[i][2], ValueAt(rec, node.fields[i][1]))
      [] node.t = "list" ->
            /\ rec.t = "list"
            /\ Len(rec.items) = Len(node.items)
            /\ \A i \in 1..Len(node.items) : Mapped(node.items[i], rec.items[i])
      [] OTHER -> rec = node

\* every node of a tree has all the fields of its production
RECURSIVE Complete(_)
Complete(node) ==
    CASE node.t = "node" ->
            /\ [i \in 1..Len(node.fields) |-> node.fields[i][1]]
                  = ProductionFields(node.cls)
            /\ \A i \in 1..Len(node.fields) : Complete(node.fields[i][2])
      [] node.t = "list" -> \A i \in 1..Len(node.items) : Complete(node.items[i])
      [] OTHER -> TRUE

\* C10: the record emitted for a native node has `_type` the production name
\* and one entry per structural field, in order; a sequence becomes an array
\* of the same length whose i-th element encodes the i-th child (sequences
\* in sequences too), a node a nested record, any other value itself.
StructuralMapping ==
    /\ (EncoderRan /\ source.kind = "text") =>
          /\ Complete(Parse(source).tree)
          /\ Mapped(Parse(source).tree, ValueAt(enc_result, "ast"))
    /\ rt # NotRun => Mapped(Rebuild.val, rt)

\* a rebuilt module whose body holds a sequence and a node was encoded
StructuralWitness ==
    /\ rt # NotRun
    /\ Rebuild.val.t = "node"
    /\ Rebuild.val.cls = "Module"
    /\ \E i \in 1..Len(Rebuild.val.fields) :
          /\ Rebuild.val.fields[i][1] = "body"
          /\ Rebuild.val.fields[i][2].t = "list"
          /\ Len(Rebuild.val.fields[i][2].items) = 2
          /\ Rebuild.val.fields[i][2].items[1].t = "list"
          /\ Rebuild.val.fields[i][2].items[2].t = "node"

====
